---- MODULE Spec2Model ----
\* Token resolution and client bootstrap of the Azure DevOps MCP server
\* (src/index.ts): getAzureDevOpsToken, the client factory returned by
\* getAzureDevOpsClient, and the user-agent state set by the transport's
\* initialized notification.
EXTENDS Integers, Sequences, FiniteSets, TLC

\* ---------------------------------------------------------------- bounds
\* Number of tool invocations (calls of getAzureDevOpsToken or of the client
\* factory) that may be in flight at once.
NumCalls == 2

Calls == 1..NumCalls

\* ---------------------------------------------------------------- values
\* JavaScript's undefined, for string-valued places.
None == "<undefined>"

\* A possibly-undefined number (token?.expiresOnTimestamp).
Nothing == <<>>
Some(x) == <<x>>

\* a || b of JavaScript on string | undefined.
Truthy(s) == s # None /\ s # ""
Or(a, b) == IF Truthy(a) THEN a ELSE b

\* String.prototype.toLowerCase on a sequence of characters.
LowerChar(ch) ==
  CASE ch = "O" -> "o"
    [] ch = "B" -> "b"
    [] ch = "P" -> "p"
    [] ch = "A" -> "a"
    [] ch = "T" -> "t"
    [] OTHER -> ch
ToLowerCase(s) == [i \in 1..Len(s) |-> LowerChar(s[i])]

\* process.env.ADO_AUTH is kept as [defined, chars] so that it can be
\* lower-cased; (process.env.ADO_AUTH || "") is OrEmpty.
OrEmpty(v) == IF v.defined /\ v.chars # <<>> THEN v.chars ELSE <<>>
Unset == [defined |-> FALSE, chars |-> <<>>]
Str(cs) == [defined |-> TRUE, chars |-> cs]
Obo == <<"o", "b", "o">>

scope == "499b84ac-1321-427f-aa17-267ca6975798/.default"
packageVersion == "1.2.3"

\* ---------------------------------------------------------------- state
VARIABLES
  env,        \* process.env
  argv,       \* parsed command line: organization, tenant
  sdk,        \* whether azdev.WebApi.createWithBearerToken is a function
  composer,   \* the UserAgentComposer instance of main()
  pc,         \* per call: "idle", "await" (suspended on getToken), "done"
  kind,       \* per call: "token" (getAzureDevOpsToken) or "client" (factory)
  credential, \* per call: the credential getToken is called on, as its sources in order
  asking,     \* per call: index of the source currently asked
  trace,      \* per call: what the call did, in order
  result      \* per call: what the call returned or threw

vars == <<env, argv, sdk, composer, pc, kind, credential, asking, trace, result>>

\* ---------------------------------------------------------------- inputs
\* The values of the two environment names of one field and, for the tenant,
\* of the --tenant flag: absent, empty, set under one name or under both.
AssertionPairs == { <<None, None>>, <<"", "ua-ado">>, <<"ua-mcp", "ua-ado">> }
TenantTriples ==
  { <<None, None, None>>, <<"tenant-ad", None, None>>, <<None, "tenant-az", None>>,
    <<None, None, "tenant-flag">>, <<"", "tenant-az", "tenant-flag">> }
ClientIdPairs == { <<None, None>>, <<"cid-ad", None>>, <<"", "cid-az">> }
ClientSecretPairs == { <<None, None>>, <<"secret-ad", None>>, <<None, "secret-az">> }
OboAuthValues == { Str(Obo), Str(<<"O", "b", "O">>) }
OtherAuthValues == { Unset, Str(<<"P", "A", "T">>), Str(<<"o", "b">>) }
OverrideValues == { None, "", "prod" }
ClientInfos == { [name |-> "myclient", version |-> "0.1"], [name |-> "vscode", version |-> "2.0"] }

MkEnv(auth, ua, tn, cid, sec, ovr, org) ==
  [ ADO_AUTH |-> auth,
    MCP_USER_ASSERTION |-> ua[1], ADO_USER_ASSERTION |-> ua[2],
    AZURE_AD_TENANT_ID |-> tn[1], AZURE_TENANT_ID |-> tn[2],
    AZURE_AD_CLIENT_ID |-> cid[1], AZURE_CLIENT_ID |-> cid[2],
    AZURE_AD_CLIENT_SECRET |-> sec[1], AZURE_CLIENT_SECRET |-> sec[2],
    ADO_MCP_AZURE_TOKEN_CREDENTIALS |-> ovr,
    AZURE_TOKEN_CREDENTIALS |-> None,
    ADO_ORG |-> org ]

\* ---------------------------------------------------------------- module scope
\* Module-level constants of index.ts, computed once at load from argv and env.
orgName == Or(argv.organization, env.ADO_ORG)
tenantId == Or(argv.tenant, env.AZURE_AD_TENANT_ID)
orgUrl == "https://dev.azure.com/" \o orgName

\* ---------------------------------------------------------------- collaborators
\* UserAgentComposer (useragent.ts): base version plus optional client info.
NewComposer(version) == [baseVersion |-> version, appended |-> FALSE, name |-> None, version |-> None]
AppendMcpClientInfo(c, info) ==
  [c EXCEPT !.appended = TRUE, !.name = info.name, !.version = info.version]
UserAgent(c) ==
  IF c.appended
  THEN "AzureDevOps.MCP/" \o c.baseVersion \o " " \o c.name \o "/" \o c.version
  ELSE "AzureDevOps.MCP/" \o c.baseVersion

\* What an identity provider answers to the getToken request of call c on
\* source src: a token issued to that request, no token, or an error.
IssuedToken(c, src) ==
  [token |-> "tok-" \o src \o "-" \o ToString(c), expiresOnTimestamp |-> 1000 * c]
ProviderError(src) == src \o ": authentication failed"

\* ---------------------------------------------------------------- events
\* What a call does is recorded in its trace, in program order.
Log(msg, fields) == [ev |-> "log", msg |-> msg, fields |-> fields]
SetEnv(name, value) == [ev |-> "setenv", name |-> name, value |-> value]
New(cls, options) == [ev |-> "new", cls |-> cls, options |-> options]
GetToken(src, sc) == [ev |-> "getToken", src |-> src, scope |-> sc]
Resolved(src, token) == [ev |-> "resolved", src |-> src, token |-> token]
ResolvedNull(src) == [ev |-> "resolvedNull", src |-> src]
Rejected(src, error) == [ev |-> "rejected", src |-> src, error |-> error]

Pending == [status |-> "pending"]
Returned(token) == [status |-> "returned", token |-> token]
ReturnedClient(token, connection) == [status |-> "returned", token |-> token, connection |-> connection]
Threw(error) == [status |-> "threw", error |-> error]

ErrNoAssertion == "ADO_AUTH=obo is set but MCP_USER_ASSERTION was not provided."
ErrOboConfig == "ADO_AUTH=obo requires AZURE_(AD_)TENANT_ID, AZURE_(AD_)CLIENT_ID and AZURE_(AD_)CLIENT_SECRET to be set."
ErrOboNoToken == "On-behalf-of flow failed to acquire Azure DevOps token."
ErrNoToken == "Failed to obtain Azure DevOps token. Ensure you have Azure CLI logged in or another token source setup correctly."

\* ---------------------------------------------------------------- getAzureDevOpsToken
\* Variant: the mode is compared without lower-casing.
authMode_CaseSensitive == OrEmpty(env.ADO_AUTH)

authMode == ToLowerCase(OrEmpty(env.ADO_AUTH))

userAssertion == Or(env.MCP_USER_ASSERTION, env.ADO_USER_ASSERTION)
envTenant == Or(Or(env.AZURE_AD_TENANT_ID, env.AZURE_TENANT_ID), tenantId)
clientId == Or(env.AZURE_AD_CLIENT_ID, env.AZURE_CLIENT_ID)
clientSecret == Or(env.AZURE_AD_CLIENT_SECRET, env.AZURE_CLIENT_SECRET)

\* The first diagnostic record of the on-behalf-of path.
OboStartRecord ==
  Log("[ADO][OBO] Starting OBO token acquisition",
      [hasUserAssertion |-> userAssertion, hasTenant |-> envTenant,
       hasClientId |-> clientId, hasClientSecret |-> clientSecret, orgUrl |-> orgUrl])

\* The second diagnostic record; token is Nothing or Some(an AccessToken).
OboAcquiredRecord(token) ==
  Log("[ADO][OBO] Token acquired",
      [expiresOn |-> IF token = Nothing THEN Nothing ELSE Some(token[1].expiresOnTimestamp)])

OboCredentialOptions ==
  [tenantId |-> envTenant, clientId |-> clientId, clientSecret |-> clientSecret,
   userAssertionToken |-> userAssertion]

\* Variant: the override is ignored.
TokenCredentialsValue_AlwaysDev == "dev"

\* The value the default path assigns to process.env.AZURE_TOKEN_CREDENTIALS.
TokenCredentialsValue ==
  IF Truthy(env.ADO_MCP_AZURE_TOKEN_CREDENTIALS) THEN env.ADO_MCP_AZURE_TOKEN_CREDENTIALS ELSE "dev"

\* Variant: the ambient credential is placed before the CLI credential.
DefaultSources_AmbientFirst ==
  IF Truthy(tenantId) THEN <<"DefaultAzureCredential", "AzureCliCredential">>
  ELSE <<"DefaultAzureCredential">>

\* The sources of the credential of the default path, in the order asked.
DefaultSources ==
  IF Truthy(tenantId) THEN <<"AzureCliCredential", "DefaultAzureCredential">>
  ELSE <<"DefaultAzureCredential">>

\* The constructions of the default path, in program order.
DefaultConstructions ==
  <<New("DefaultAzureCredential", [tenantId |-> None])>>
  \o (IF Truthy(tenantId)
      THEN <<New("AzureCliCredential", [tenantId |-> tenantId]),
             New("ChainedTokenCredential", [sources |-> DefaultSources])>>
      ELSE <<>>)

\* Variant: the client secret is not among the checked fields.
TokenEntry_SecretUnchecked ==
  IF authMode = Obo
  THEN IF ~Truthy(userAssertion)
       THEN [events |-> <<OboStartRecord>>, sources |-> <<>>, error |-> ErrNoAssertion]
       ELSE IF ~Truthy(envTenant) \/ ~Truthy(clientId)
       THEN [events |-> <<OboStartRecord>>, sources |-> <<>>, error |-> ErrOboConfig]
       ELSE [events |-> <<OboStartRecord, New("OnBehalfOfCredential", OboCredentialOptions),
                          GetToken("OnBehalfOfCredential", scope)>>,
             sources |-> <<"OnBehalfOfCredential">>, error |-> None]
  ELSE [events |-> <<SetEnv("AZURE_TOKEN_CREDENTIALS", TokenCredentialsValue)>>
                   \o DefaultConstructions
                   \o <<GetToken(DefaultSources[1], scope)>>,
        sources |-> DefaultSources, error |-> None]

\* getAzureDevOpsToken from its entry to its first await or throw:
\* the events, the credential awaited on (<<>> when it threw) and the error.
TokenEntry ==
  IF authMode = Obo
  THEN IF ~Truthy(userAssertion)
       THEN [events |-> <<OboStartRecord>>, sources |-> <<>>, error |-> ErrNoAssertion]
       ELSE IF ~Truthy(envTenant) \/ ~Truthy(clientId) \/ ~Truthy(clientSecret)
       THEN [events |-> <<OboStartRecord>>, sources |-> <<>>, error |-> ErrOboConfig]
       ELSE [events |-> <<OboStartRecord, New("OnBehalfOfCredential", OboCredentialOptions),
                          GetToken("OnBehalfOfCredential", scope)>>,
             sources |-> <<"OnBehalfOfCredential">>, error |-> None]
  ELSE [events |-> <<SetEnv("AZURE_TOKEN_CREDENTIALS", TokenCredentialsValue)>>
                   \o DefaultConstructions
                   \o <<GetToken(DefaultSources[1], scope)>>,
        sources |-> DefaultSources, error |-> None]

\* process.env after the entry part has run.
EnvAfterEntry ==
  IF authMode = Obo THEN env
  ELSE [env EXCEPT !.AZURE_TOKEN_CREDENTIALS = TokenCredentialsValue]

\* Variant: a token resolved for another call is handed out again.
TokenResume_SharedCache(token) ==
  LET cached == { d \in Calls : pc[d] = "done" /\ result[d].status = "returned" }
      handed == IF cached # {} /\ token # Nothing
                THEN Some(result[CHOOSE d \in cached : TRUE].token)
                ELSE token
  IN IF authMode = Obo
     THEN [events |-> <<OboAcquiredRecord(handed)>>,
           outcome |-> IF handed = Nothing THEN Threw(ErrOboNoToken) ELSE Returned(handed[1])]
     ELSE [events |-> <<>>,
           outcome |-> IF handed = Nothing THEN Threw(ErrNoToken) ELSE Returned(handed[1])]

\* getAzureDevOpsToken after its await: token is Nothing (the credential
\* resolved with no token) or Some(AccessToken). The events and the outcome.
TokenResume(token) ==
  IF authMode = Obo
  THEN [events |-> <<OboAcquiredRecord(token)>>,
        outcome |-> IF token = Nothing THEN Threw(ErrOboNoToken) ELSE Returned(token[1])]
  ELSE [events |-> <<>>,
        outcome |-> IF token = Nothing THEN Threw(ErrNoToken) ELSE Returned(token[1])]

\* ---------------------------------------------------------------- getAzureDevOpsClient
ClientOptions ==
  [productName |-> "AzureDevOps.MCP", productVersion |-> packageVersion,
   userAgent |-> UserAgent(composer)]

\* azdev.WebApi.createWithBearerToken(orgUrl, token.token, undefined, options)
CreateWithBearerToken(token) ==
  [via |-> "createWithBearerToken", serverUrl |-> orgUrl, bearer |-> token.token,
   options |-> ClientOptions, afterInitialized |-> composer.appended]

\* Variant: the handler path sends the user agent of startup.
NewWebApi_StaleUserAgent(token) ==
  [via |-> "WebApi", serverUrl |-> orgUrl, bearer |-> token.token,
   options |-> [ClientOptions EXCEPT !.userAgent = UserAgent(NewComposer(packageVersion))],
   afterInitialized |-> composer.appended]

\* new azdev.WebApi(orgUrl, azdev.getBearerHandler(token.token), undefined, options)
NewWebApi(token) ==
  [via |-> "WebApi", serverUrl |-> orgUrl, bearer |-> token.token,
   options |-> ClientOptions, afterInitialized |-> composer.appended]

\* The factory's body after `await getAzureDevOpsToken()` has returned token.
BuildConnection(token) ==
  IF authMode = Obo /\ sdk.createWithBearerToken
  THEN CreateWithBearerToken(token)
  ELSE NewWebApi(token)

ClientInitializedRecord ==
  Log("[ADO] WebApi client initialized", [orgUrl |-> orgUrl, authMode |-> authMode])

\* Variant: the factory builds a client also when no token was resolved.
Settle_ClientWithoutToken(k, outcome) ==
  IF k = "client"
  THEN LET token == IF outcome.status = "returned" THEN outcome.token
                    ELSE [token |-> "", expiresOnTimestamp |-> 0]
       IN [events |-> <<New("WebApi", BuildConnection(token)), ClientInitializedRecord>>,
           result |-> ReturnedClient(token, BuildConnection(token))]
  ELSE [events |-> <<>>, result |-> outcome]

\* What a call does once getAzureDevOpsToken has settled with outcome.
Settle(k, outcome) ==
  IF k = "client" /\ outcome.status = "returned"
  THEN [events |-> <<New("WebApi", BuildConnection(outcome.token)), ClientInitializedRecord>>,
        result |-> ReturnedClient(outcome.token, BuildConnection(outcome.token))]
  ELSE [events |-> <<>>, result |-> outcome]

\* ChainedTokenCredential.getToken (@azure/identity), when source i of
\* sources has rejected: the next source is asked, and the error of the last
\* source is the chain's error.
ChainHasNext(sources, i) == i < Len(sources)

\* ---------------------------------------------------------------- configurations
OrgPairs == { <<"contoso", None>>, <<None, "fabrikam">> }

MkConfig(auth, ua, tn, cid, sec, ovr, org, has) ==
  [ env |-> MkEnv(auth, ua, tn, cid, sec, ovr, org[2]),
    argv |-> [organization |-> org[1], tenant |-> tn[3]],
    sdk |-> [createWithBearerToken |-> has] ]

\* A configuration that sets every field, under its primary name.
BaseAssertion == <<"ua-mcp", "ua-ado">>
BaseTenant == <<"tenant-ad", None, None>>
BaseClientId == <<"cid-ad", None>>
BaseClientSecret == <<"secret-ad", None>>

\* How many of the values vs differ from the values bs.
Off(vs, bs) == Cardinality({ i \in DOMAIN vs : vs[i] # bs[i] })

\* The four on-behalf-of fields: every combination of absent and set fields,
\* and every other way of setting one field with the rest set.
OboFields ==
  { f \in AssertionPairs \X TenantTriples \X ClientIdPairs \X ClientSecretPairs :
      LET base == <<BaseAssertion, BaseTenant, BaseClientId, BaseClientSecret>>
          absent == << <<None, None>>, <<None, None, None>>, <<None, None>>, <<None, None>> >>
      IN \/ \A i \in 1..4 : f[i] \in {base[i], absent[i]}
         \/ Off(f, base) <= 1 }

\* Processes started with ADO_AUTH=obo in some letter case.
OboConfigs ==
  { MkConfig(auth, f[1], f[2], f[3], f[4], "prod", <<"contoso", None>>, has) :
      auth \in OboAuthValues, f \in OboFields, has \in BOOLEAN }

\* Processes started with any other ADO_AUTH: up to two of mode, tenant,
\* override and organization differ from an unset mode, no tenant, no
\* override and a positional organization.
DefaultConfigs ==
  { MkConfig(g[1], BaseAssertion, g[2], BaseClientId, BaseClientSecret, g[3], g[4], TRUE) :
      g \in { h \in OtherAuthValues \X TenantTriples \X OverrideValues \X OrgPairs :
                Off(h, <<Unset, <<None, None, None>>, None, <<"contoso", None>> >>) <= 2 } }

Configs == OboConfigs \cup DefaultConfigs

\* ---------------------------------------------------------------- behaviour
\* The state once main() has connected the transport.
Init ==
  /\ \E cfg \in Configs : env = cfg.env /\ argv = cfg.argv /\ sdk = cfg.sdk
  /\ composer = NewComposer(packageVersion)
  /\ pc = [c \in Calls |-> "idle"]
  /\ kind = [c \in Calls |-> "none"]
  /\ credential = [c \in Calls |-> <<>>]
  /\ asking = [c \in Calls |-> 0]
  /\ trace = [c \in Calls |-> <<>>]
  /\ result = [c \in Calls |-> Pending]

\* A tool invocation calls getAzureDevOpsToken (k = "token") or the client
\* factory (k = "client"); the call runs to its first await or throw.
StartCall(c, k) ==
  /\ pc[c] = "idle"
  /\ kind' = [kind EXCEPT ![c] = k]
  /\ env' = EnvAfterEntry
  /\ trace' = [trace EXCEPT ![c] = TokenEntry.events]
  /\ IF TokenEntry.error # None
     THEN /\ pc' = [pc EXCEPT ![c] = "done"]
          /\ result' = [result EXCEPT ![c] = Settle(k, Threw(TokenEntry.error)).result]
          /\ UNCHANGED <<credential, asking>>
     ELSE /\ pc' = [pc EXCEPT ![c] = "await"]
          /\ credential' = [credential EXCEPT ![c] = TokenEntry.sources]
          /\ asking' = [asking EXCEPT ![c] = 1]
          /\ UNCHANGED result
  /\ UNCHANGED <<argv, sdk, composer>>

StartTokenCall(c) == StartCall(c, "token")
StartClientCall(c) == StartCall(c, "client")

\* The call resumes after its await with token (Nothing or Some(AccessToken))
\* and runs to its end.
Finish(c, answer, token) ==
  LET r == TokenResume(token)
      s == Settle(kind[c], r.outcome)
  IN /\ trace' = [trace EXCEPT ![c] = @ \o <<answer>> \o r.events \o s.events]
     /\ result' = [result EXCEPT ![c] = s.result]
     /\ pc' = [pc EXCEPT ![c] = "done"]
     /\ UNCHANGED <<env, argv, sdk, composer, kind, credential, asking>>

\* The source being asked answers with a token.
SourceResolves(c) ==
  /\ pc[c] = "await"
  /\ LET src == credential[c][asking[c]]
     IN Finish(c, Resolved(src, IssuedToken(c, src)), Some(IssuedToken(c, src)))

\* A credential that is not a chain answers with no token.
SourceResolvesNull(c) ==
  /\ pc[c] = "await"
  /\ Len(credential[c]) = 1
  /\ Finish(c, ResolvedNull(credential[c][1]), Nothing)

\* A source of a chain that is not its last rejects: the next one is asked.
ChainFallsThrough(c) ==
  /\ pc[c] = "await"
  /\ ChainHasNext(credential[c], asking[c])
  /\ LET src == credential[c][asking[c]]
         nxt == credential[c][asking[c] + 1]
     IN trace' = [trace EXCEPT ![c] = @ \o <<Rejected(src, ProviderError(src)), GetToken(nxt, scope)>>]
  /\ asking' = [asking EXCEPT ![c] = @ + 1]
  /\ UNCHANGED <<env, argv, sdk, composer, pc, kind, credential, result>>

\* The last source rejects: getToken rejects with its error, which
\* getAzureDevOpsToken and the factory let through.
SourceRejects(c) ==
  /\ pc[c] = "await"
  /\ ~ChainHasNext(credential[c], asking[c])
  /\ LET src == credential[c][asking[c]]
         s == Settle(kind[c], Threw(ProviderError(src)))
     IN /\ trace' = [trace EXCEPT ![c] = @ \o <<Rejected(src, ProviderError(src))>> \o s.events]
        /\ result' = [result EXCEPT ![c] = s.result]
  /\ pc' = [pc EXCEPT ![c] = "done"]
  /\ UNCHANGED <<env, argv, sdk, composer, kind, credential, asking>>

\* server.server.oninitialized: the transport reports the connecting client.
Initialized(info) ==
  /\ ~composer.appended
  /\ composer' = AppendMcpClientInfo(composer, info)
  /\ UNCHANGED <<env, argv, sdk, pc, kind, credential, asking, trace, result>>

Next ==
  \/ \E c \in Calls : StartTokenCall(c)
  \/ \E c \in Calls : StartClientCall(c)
  \/ \E c \in Calls : SourceResolves(c)
  \/ \E c \in Calls : SourceResolvesNull(c)
  \/ \E c \in Calls : ChainFallsThrough(c)
  \/ \E c \in Calls : SourceRejects(c)
  \/ \E info \in ClientInfos : Initialized(info)

Spec == Init /\ [][Next]_vars

\* ---------------------------------------------------------------- properties
\* Vocabulary of the properties, stated on the configuration and the traces.
Started(c) == pc[c] # "idle"
Done(c) == pc[c] = "done"
Events(c, e) == { i \in DOMAIN trace[c] : trace[c][i].ev = e }
Constructed(c) == { trace[c][i].cls : i \in Events(c, "new") }
Asked(c) == { trace[c][i].src : i \in Events(c, "getToken") }
CredentialClasses == {"OnBehalfOfCredential", "DefaultAzureCredential", "AzureCliCredential", "ChainedTokenCredential"}
AmbientClasses == {"DefaultAzureCredential", "AzureCliCredential", "ChainedTokenCredential"}
LogsOf(c, msg) == { i \in Events(c, "log") : trace[c][i].msg = msg }

\* ADO_AUTH, lower-cased, equals "obo".
OboMode ==
  /\ env.ADO_AUTH.defined
  /\ Len(env.ADO_AUTH.chars) = 3
  /\ env.ADO_AUTH.chars[1] \in {"o", "O"}
  /\ env.ADO_AUTH.chars[2] \in {"b", "B"}
  /\ env.ADO_AUTH.chars[3] \in {"o", "O"}

\* A value is present when it is set and non-empty.
Present(v) == v \notin {None, ""}
\* The first non-empty of two names.
FirstOf(a, b) == IF Present(a) THEN a ELSE b

\* C1: in on-behalf-of mode no diagnostic record of getAzureDevOpsToken
\* contains the value of the user assertion, the client id or the client secret.
C1_NoSecretInDiagnostics ==
  \A c \in Calls : \A i \in LogsOf(c, "[ADO][OBO] Starting OBO token acquisition") :
    LET f == trace[c][i].fields
        secrets == { v \in { FirstOf(env.MCP_USER_ASSERTION, env.ADO_USER_ASSERTION),
                             FirstOf(env.AZURE_AD_CLIENT_ID, env.AZURE_CLIENT_ID),
                             FirstOf(env.AZURE_AD_CLIENT_SECRET, env.AZURE_CLIENT_SECRET) } : Present(v) }
    IN { f.hasUserAssertion, f.hasTenant, f.hasClientId, f.hasClientSecret } \cap secrets = {}

\* The value AZURE_TOKEN_CREDENTIALS is to have: the override when set and
\* non-empty, else "dev".
ExpectedTokenCredentials ==
  IF Present(env.ADO_MCP_AZURE_TOKEN_CREDENTIALS) THEN env.ADO_MCP_AZURE_TOKEN_CREDENTIALS ELSE "dev"

\* Call c assigned the expected value to AZURE_TOKEN_CREDENTIALS before it
\* constructed any credential.
AssignedBeforeConstruction(c) ==
  /\ \E i \in Events(c, "setenv") :
       /\ trace[c][i].name = "AZURE_TOKEN_CREDENTIALS"
       /\ trace[c][i].value = ExpectedTokenCredentials
       /\ \A j \in Events(c, "new") : trace[c][j].cls \in CredentialClasses => i < j
  /\ env.AZURE_TOKEN_CREDENTIALS = ExpectedTokenCredentials

\* C2 as stated: every call, in either mode, assigns AZURE_TOKEN_CREDENTIALS
\* (override or "dev") before it constructs any credential.
C2_AssignedInEveryMode ==
  \A c \in Calls : Started(c) => AssignedBeforeConstruction(c)

\* C2 amended: every default-path call assigns AZURE_TOKEN_CREDENTIALS
\* (override or "dev") before it constructs any credential; an on-behalf-of
\* call never assigns it.
C2_AssignedInDefaultMode ==
  \A c \in Calls : Started(c) =>
    IF OboMode THEN Events(c, "setenv") = {}
    ELSE AssignedBeforeConstruction(c)

C2_Witness ==
  \E c \in Calls :
    /\ ~OboMode /\ Done(c)
    /\ env.ADO_MCP_AZURE_TOKEN_CREDENTIALS = "prod"
    /\ "ChainedTokenCredential" \in Constructed(c)

\* The four required fields of the on-behalf-of path are present.
OboFieldsPresent ==
  /\ Present(FirstOf(env.MCP_USER_ASSERTION, env.ADO_USER_ASSERTION))
  /\ Present(FirstOf(FirstOf(env.AZURE_AD_TENANT_ID, env.AZURE_TENANT_ID), argv.tenant))
  /\ Present(FirstOf(env.AZURE_AD_CLIENT_ID, env.AZURE_CLIENT_ID))
  /\ Present(FirstOf(env.AZURE_AD_CLIENT_SECRET, env.AZURE_CLIENT_SECRET))

\* In on-behalf-of mode nothing of the ambient chain is constructed or asked,
\* and in every other mode the OnBehalfOfCredential is not.
StrategiesNeverCombined(c) ==
  IF OboMode
  THEN Constructed(c) \cap AmbientClasses = {} /\ Asked(c) \cap AmbientClasses = {}
  ELSE "OnBehalfOfCredential" \notin Constructed(c) \cup Asked(c)

\* C3 as stated: a call constructs and calls the OnBehalfOfCredential if and
\* only if ADO_AUTH lower-cased is "obo", and never combines the strategies.
C3_OboIffMode ==
  \A c \in Calls : Started(c) =>
    /\ ("OnBehalfOfCredential" \in Constructed(c) /\ "OnBehalfOfCredential" \in Asked(c)) <=> OboMode
    /\ StrategiesNeverCombined(c)

\* C3 amended: a call constructs and calls the OnBehalfOfCredential if and
\* only if ADO_AUTH lower-cased is "obo" and the four required fields are
\* present; in on-behalf-of mode it never constructs or calls the ambient
\* credentials, also when it fails, and in every other mode it constructs
\* the ambient credential and never the OnBehalfOfCredential.
C3_ExactlyOneStrategy ==
  \A c \in Calls : Started(c) =>
    /\ ("OnBehalfOfCredential" \in Constructed(c) /\ "OnBehalfOfCredential" \in Asked(c))
         <=> (OboMode /\ OboFieldsPresent)
    /\ StrategiesNeverCombined(c)
    /\ ~OboMode => "DefaultAzureCredential" \in Constructed(c)

C3_Witness ==
  \E c \in Calls :
    /\ OboMode /\ env.ADO_AUTH.chars # Obo
    /\ Done(c) /\ result[c].status = "threw"
    /\ "OnBehalfOfCredential" \in Asked(c)

\* Neither of the two names of a field has a non-empty value.
Absent2(a, b) == ~Present(a) /\ ~Present(b)
AssertionAbsent == Absent2(env.MCP_USER_ASSERTION, env.ADO_USER_ASSERTION)
TenantEnvAbsent == Absent2(env.AZURE_AD_TENANT_ID, env.AZURE_TENANT_ID)
ClientIdAbsent == Absent2(env.AZURE_AD_CLIENT_ID, env.AZURE_CLIENT_ID)
ClientSecretAbsent == Absent2(env.AZURE_AD_CLIENT_SECRET, env.AZURE_CLIENT_SECRET)

\* Call c failed with a configuration error before it constructed a
\* credential or asked an identity provider: the assertion's own error when
\* the assertion is absent, else the combined one.
FailedOnConfiguration(c) ==
  /\ Done(c)
  /\ result[c].status = "threw"
  /\ result[c].error = (IF AssertionAbsent THEN ErrNoAssertion ELSE ErrOboConfig)
  /\ Events(c, "new") = {} /\ Events(c, "getToken") = {}

\* C4 as stated: in on-behalf-of mode, a call with any of the four fields
\* absent under both of its environment names fails on configuration.
C4_AbsentEnvFieldFails ==
  \A c \in Calls :
    (Started(c) /\ OboMode
       /\ (AssertionAbsent \/ TenantEnvAbsent \/ ClientIdAbsent \/ ClientSecretAbsent))
    => FailedOnConfiguration(c)

\* C4 amended: the tenant id counts as absent only when it has no non-empty
\* value under either environment name and none from the --tenant flag;
\* with any of the four fields absent the call fails on configuration.
C4_AbsentFieldFails ==
  \A c \in Calls :
    (Started(c) /\ OboMode
       /\ (AssertionAbsent \/ (TenantEnvAbsent /\ ~Present(argv.tenant))
             \/ ClientIdAbsent \/ ClientSecretAbsent))
    => FailedOnConfiguration(c)

C4_Witness ==
  \E c \in Calls :
    /\ OboMode /\ ~AssertionAbsent /\ ~TenantEnvAbsent /\ ~ClientIdAbsent /\ ClientSecretAbsent
    /\ FailedOnConfiguration(c)
    /\ result[c].error = ErrOboConfig

\* The first index of an event of kind e about source src in c's trace, 0 if none.
FirstIndex(c, e, src) ==
  LET is == { i \in Events(c, e) : trace[c][i].src = src }
  IN IF is = {} THEN 0 ELSE CHOOSE i \in is : \A j \in is : i <= j

\* The tenant id the process holds: the --tenant flag, else AZURE_AD_TENANT_ID.
SuppliedTenant == FirstOf(argv.tenant, env.AZURE_AD_TENANT_ID)

C6_ChainIffTenantSupplied ==
  \A c \in Calls :
    (pc[c] = "await" /\ ~OboMode) =>
      credential[c] =
        IF Present(argv.tenant) \/ Present(env.AZURE_AD_TENANT_ID) \/ Present(env.AZURE_TENANT_ID)
        THEN <<"AzureCliCredential", "DefaultAzureCredential">>
        ELSE <<"DefaultAzureCredential">>

\* The error getAzureDevOpsToken ended with in call c, None if it returned
\* or has not ended: a configuration error, the error of the source that
\* rejected last, or the no-token error of the mode.
TokenFailure(c) ==
  LET rejected == Events(c, "rejected")
      last == CHOOSE i \in rejected : \A j \in rejected : j <= i
  IN IF ~Done(c) THEN None
     ELSE IF Events(c, "getToken") = {}
          THEN (IF AssertionAbsent THEN ErrNoAssertion ELSE ErrOboConfig)
     ELSE IF Events(c, "resolvedNull") # {}
          THEN (IF OboMode THEN ErrOboNoToken ELSE ErrNoToken)
     ELSE IF Events(c, "resolved") = {} THEN trace[c][last].error
     ELSE None

HasConnection(c) == result[c].status = "returned" /\ "connection" \in DOMAIN result[c]

OwnOutcome(c) ==
  LET resolved == Events(c, "resolved")
  IN IF resolved # {}
     THEN [status |-> "returned", token |-> trace[c][CHOOSE i \in resolved : TRUE].token]
     ELSE [status |-> "threw", error |-> TokenFailure(c)]

\* The credential a call is to be configured with, from the process
\* configuration alone.
OwnCredential ==
  IF OboMode THEN <<"OnBehalfOfCredential">>
  ELSE IF Present(SuppliedTenant) THEN <<"AzureCliCredential", "DefaultAzureCredential">>
  ELSE <<"DefaultAzureCredential">>

\* C8: with several calls in flight, every call ends with the token its own
\* provider call produced or with its own error, a token issued to one call
\* is returned by no other, no call waits for another, the credential
\* configuration is the same under every interleaving, and after any
\* default-path call AZURE_TOKEN_CREDENTIALS holds the one expected value.
C8_CallsIndependent ==
  /\ \A c \in Calls :
       /\ Done(c) =>
            /\ result[c].status = OwnOutcome(c).status
            /\ result[c].status = "returned" =>
                 /\ result[c].token = OwnOutcome(c).token
                 /\ \A d \in Calls \ {c} : \A i \in Events(d, "resolved") :
                      trace[d][i].token # result[c].token
            /\ result[c].status = "threw" => result[c].error = OwnOutcome(c).error
       /\ pc[c] = "await" => (credential[c] = OwnCredential /\ ENABLED SourceResolves(c))
       /\ pc[c] = "idle" => (ENABLED StartTokenCall(c) /\ ENABLED StartClientCall(c))
  /\ (~OboMode /\ \E c \in Calls : Started(c)) =>
       env.AZURE_TOKEN_CREDENTIALS = ExpectedTokenCredentials

C8_Witness ==
  \E c, d \in Calls :
    /\ c # d /\ ~OboMode
    /\ Done(c) /\ result[c].status = "returned"
    /\ pc[d] = "await" /\ asking[d] = 2

\* The organization the process was started for: the positional argument,
\* else ADO_ORG.
Organization == FirstOf(argv.organization, env.ADO_ORG)

\* C9: every client handle is for "https://dev.azure.com/" + organization
\* and carries, on both construction paths, product name "AzureDevOps.MCP",
\* the package version and the user agent of the moment of construction:
\* base version only before the initialized notification, with the
\* connecting client's name/version appended after it.
C9_HandleMetadata ==
  \A c \in Calls : (Done(c) /\ HasConnection(c)) =>
    LET h == result[c].connection
    IN /\ h.serverUrl = "https://dev.azure.com/" \o Organization
       /\ h.via = (IF OboMode /\ sdk.createWithBearerToken THEN "createWithBearerToken" ELSE "WebApi")
       /\ h.options.productName = "AzureDevOps.MCP"
       /\ h.options.productVersion = packageVersion
       /\ h.options.userAgent =
            IF h.afterInitialized
            THEN "AzureDevOps.MCP/" \o packageVersion \o " " \o composer.name \o "/" \o composer.version
            ELSE "AzureDevOps.MCP/" \o packageVersion

C9_Witness ==
  \E c, d \in Calls :
    /\ HasConnection(c) /\ ~result[c].connection.afterInitialized
    /\ HasConnection(d) /\ result[d].connection.afterInitialized
    /\ result[c].connection.via = "WebApi" /\ OboMode

\* C10: in on-behalf-of mode the record "Token acquired" is written only
\* after a successful acquisition: never in a call where the provider
\* returned no token or failed, and only in calls that return a token.
C10_AcquiredOnlyOnSuccess ==
  \A c \in Calls : (Done(c) /\ OboMode) =>
    /\ (Events(c, "resolvedNull") # {} \/ Events(c, "rejected") # {})
         => LogsOf(c, "[ADO][OBO] Token acquired") = {}
    /\ LogsOf(c, "[ADO][OBO] Token acquired") # {} => result[c].status = "returned"

====
